---- MODULE Spec2Model ----
(***************************************************************************)
(* Opinion-mapping and clustering pipeline of cosenseus.                   *)
(*                                                                         *)
(*   backend/nlp_service/core/opinion_analyzer.py   OpinionAnalyzer        *)
(*   backend/nlp_service/ollama_client.py           OllamaClient           *)
(*   backend/api-gateway/routers/ai_analysis_local.py  _run_polis_analysis *)
(*                                                                         *)
(* Python values are represented as follows.  A list is a sequence, with   *)
(* Python index i at position i+1.  A mapping entry (a dict) is a record   *)
(* [statement, position]; a key the dict does not have holds NoKey and a   *)
(* null value holds PyNone.  A numpy matrix is a sequence of rows, each a  *)
(* sequence of cells; the cells 0.0, 1.0, -1.0 are the integers 0, 1, -1.  *)
(***************************************************************************)
EXTENDS Integers, Sequences, FiniteSets, TLC

VARIABLES
    pc,                     \* position of the modelled call
    via,                    \* "endpoint": the GET handler; "direct": the helper itself
    client,                 \* "ollama": OllamaClient; "stub": a test double in its place
    responses,              \* _run_polis_analysis: responses
    user_ids,               \* _run_polis_analysis: user_ids (PyNone when not supplied)
    statements,             \* the statement list of the call
    user_statement_matrix,  \* list of {user_id, response, mapping}
    numerical_matrix,       \* OpinionAnalyzer.analyze: numerical_matrix
    n_clusters,             \* OpinionAnalyzer.n_clusters
    n_components,           \* OpinionAnalyzer.n_components
    result,                 \* what the call returned or raised
    calls,                  \* the calls made on the client and on the LLM, in order
    llm,                    \* "down": every request to the LLM fails or times out
    trace,                  \* the stages of the run with their arguments, in order
    frames,                 \* concurrent runs: the local variables of each run
    heap,                   \* concurrent runs: the OpinionAnalyzer objects created
    ollama_client,          \* the module-level OllamaClient instance
    db,                     \* the rows of the local database, for one event
    background_tasks,       \* the tasks added to BackgroundTasks and not yet begun
    task_frames,            \* the local variables of the background tasks that run
    requests,               \* the number of requests made so far
    served                  \* the responses given to these requests, in order

\* the variables of one analysis call
pipeVars == <<pc, via, client, responses, user_ids, statements, user_statement_matrix,
              numerical_matrix, n_clusters, n_components, result, calls, llm, trace>>

\* the variables of concurrent analysis runs
concVars == <<frames, heap, ollama_client>>

\* the variables of the event-round life cycle
roundVars == <<db, background_tasks, task_frames, requests, served>>

vars == <<pipeVars, concVars, roundVars>>

----------------------------------------------------------------------------
(* Bounds of the checked instances. *)

MaxUsers == 2
MaxStatements == 2
MaxTotalEntries == 3

----------------------------------------------------------------------------
(* Python values. *)

\* inside a mapping entry: an absent key, a null value
NoKey == "<no key>"
PyNone == "<None>"

\* elsewhere: None, an absent key of a parsed JSON object, a list
PyNull == [t |-> "none"]
PyAbsent == [t |-> "absent"]
PyList(v) == [t |-> "list", v |-> v]

NoResult == [kind |-> "none"]

\* the parts of the state a specification does not use
ConcIdle == frames = <<>> /\ heap = <<>> /\ ollama_client = PyNull
RoundsIdle ==
    /\ db = PyNull
    /\ background_tasks = 0
    /\ task_frames = <<>>
    /\ requests = 0
    /\ served = <<>>
PipeIdle ==
    /\ pc = "idle"
    /\ via = "direct"
    /\ client = "ollama"
    /\ responses = <<>>
    /\ user_ids = PyNull
    /\ statements = <<>>
    /\ user_statement_matrix = <<>>
    /\ numerical_matrix = <<>>
    /\ n_clusters = 3
    /\ n_components = 2
    /\ result = NoResult
    /\ calls = <<>>
    /\ llm = "up"
    /\ trace = <<>>
Raised(exc) == [kind |-> "raise", exc |-> exc]

SeqsUpTo(S, n) == UNION {[1..k -> S] : k \in 0..n}

RECURSIVE SumSeq(_)
SumSeq(s) == IF s = <<>> THEN 0 ELSE Head(s) + SumSeq(Tail(s))

\* str.lower() on the position strings of the checked instances
Lower(s) ==
    CASE s \in {"agree", "Agree", "AGREE"} -> "agree"
      [] s \in {"disagree", "Disagree", "DISAGREE"} -> "disagree"
      [] s \in {"pass", "Pass", "PASS"} -> "pass"
      [] s \in {"unsure", "Unsure", "UNSURE"} -> "unsure"
      [] OTHER -> s

----------------------------------------------------------------------------
(* OpinionAnalyzer._convert_to_numerical_matrix                             *)

\* statement_map = {statement: i for i, statement in enumerate(statements)}:
\* a later occurrence of a text overwrites the index of an earlier one.
InStatementMap(statement_text, stmts) ==
    \E i \in 1..Len(stmts) : stmts[i] = statement_text

StatementMap(statement_text, stmts) ==
    CHOOSE i \in 1..Len(stmts) :
        /\ stmts[i] = statement_text
        /\ \A j \in 1..Len(stmts) : stmts[j] = statement_text => j <= i

\* np.zeros((num_users, num_statements))
Zeros(num_users, num_statements) ==
    [u \in 1..num_users |-> [s \in 1..num_statements |-> 0]]

\* position = mapping.get('position', 'pass').lower()
PositionOf(mapping) ==
    Lower(IF mapping.position = NoKey THEN "pass" ELSE mapping.position)

\* .lower() exists on strings only
PositionRaises(mapping) == mapping.position = PyNone

\* the comparison of `position` without .lower()
ApplyEntryNoLower(row, mapping, stmts) ==
    IF InStatementMap(mapping.statement, stmts)
    THEN LET statement_index == StatementMap(mapping.statement, stmts)
         IN  IF mapping.position = "agree"
             THEN [row EXCEPT ![statement_index] = 1]
             ELSE IF mapping.position = "disagree"
                  THEN [row EXCEPT ![statement_index] = -1]
                  ELSE row
    ELSE row

\* the write `matrix[user_index, statement_index] += 1` in place of `= 1`
ApplyEntryAccumulate(row, mapping, stmts) ==
    IF InStatementMap(mapping.statement, stmts)
    THEN LET statement_index == StatementMap(mapping.statement, stmts)
         IN  IF PositionOf(mapping) = "agree"
             THEN [row EXCEPT ![statement_index] = @ + 1]
             ELSE IF PositionOf(mapping) = "disagree"
                  THEN [row EXCEPT ![statement_index] = @ - 1]
                  ELSE row
    ELSE row

\* an inner loop with `else: matrix[user_index, statement_index] = 0`
ApplyEntryResets(row, mapping, stmts) ==
    IF InStatementMap(mapping.statement, stmts)
    THEN LET statement_index == StatementMap(mapping.statement, stmts)
         IN  IF PositionOf(mapping) = "agree"
             THEN [row EXCEPT ![statement_index] = 1]
             ELSE IF PositionOf(mapping) = "disagree"
                  THEN [row EXCEPT ![statement_index] = -1]
                  ELSE [row EXCEPT ![statement_index] = 0]
    ELSE row

\* the body of the inner loop, on the row of the current user
ApplyEntry(row, mapping, stmts) ==
    IF InStatementMap(mapping.statement, stmts)
    THEN LET statement_index == StatementMap(mapping.statement, stmts)
         IN  IF PositionOf(mapping) = "agree"
             THEN [row EXCEPT ![statement_index] = 1]
             ELSE IF PositionOf(mapping) = "disagree"
                  THEN [row EXCEPT ![statement_index] = -1]
                  ELSE row
    ELSE row

\* for mapping in user_data.get('mapping', []): ...
RECURSIVE ApplyMappings(_, _, _)
ApplyMappings(row, mappings, stmts) ==
    IF mappings = <<>> THEN row
    ELSE ApplyMappings(ApplyEntry(row, Head(mappings), stmts), Tail(mappings), stmts)

\* the call raises AttributeError at the first entry whose position is null
ConvertRaises(usm) ==
    \E u \in 1..Len(usm) : \E k \in 1..Len(usm[u].mapping) :
        PositionRaises(usm[u].mapping[k])

ConvertToNumericalMatrix(usm, stmts) ==
    LET matrix == Zeros(Len(usm), Len(stmts))
    IN  [user_index \in 1..Len(usm) |->
            ApplyMappings(matrix[user_index], usm[user_index].mapping, stmts)]

----------------------------------------------------------------------------
(* OpinionAnalyzer.analyze                                                  *)
(*                                                                         *)
(* A coordinate is Zero (the 0.0 of np.zeros) or PcaFloat (a float that     *)
(* PCA.fit_transform computed, of which nothing more is known).  The labels *)
(* of KMeans.fit_predict are any vector over range(n_clusters); the call    *)
(* raises ValueError when there are fewer samples than clusters.            *)

Zero == "0.0"
PcaFloat == "float"

Min(a, b) == IF a <= b THEN a ELSE b

Returned(users, lib) == [kind |-> "return", users |-> users, lib |-> lib]

\* the guard with > in the place of >=
NotEnoughDataStrict(n_comp, num_users, num_statements) ==
    n_comp > Min(num_users, num_statements)

\* self.n_components >= min(numerical_matrix.shape)
NotEnoughData(n_comp, num_users, num_statements) ==
    n_comp >= Min(num_users, num_statements)

\* np.zeros((numerical_matrix.shape[0], self.n_components))
ReducedZeros(num_users, n_comp) ==
    [i \in 1..num_users |-> [c \in 1..n_comp |-> Zero]]

\* self.pca.fit_transform(numerical_matrix)
PcaFitTransform(matrix, n_comp) ==
    [i \in 1..Len(matrix) |-> [c \in 1..n_comp |-> PcaFloat]]

\* self.kmeans.fit_predict(reduced_matrix)
KMeansRaises(reduced_matrix, k) == Len(reduced_matrix) < k

KMeansFitPredict(reduced_matrix, k) == [1..Len(reduced_matrix) -> 0..(k - 1)]

\* reduced_matrix[i, 0] and reduced_matrix[i, 1] exist
HasXY(reduced_matrix) ==
    \A i \in 1..Len(reduced_matrix) : Len(reduced_matrix[i]) >= 2

\* the results assembled from the last user to the first
CombineReversed(usm, reduced_matrix, clusters) ==
    [i \in 1..Len(usm) |->
        [user_id |-> usm[Len(usm) + 1 - i].user_id,
         response |-> usm[Len(usm) + 1 - i].response,
         x |-> reduced_matrix[i][1],
         y |-> reduced_matrix[i][2],
         cluster |-> clusters[i]]]

\* the loop that combines the results with the original user data
Combine(usm, reduced_matrix, clusters) ==
    [i \in 1..Len(usm) |->
        [user_id |-> usm[i].user_id,
         response |-> usm[i].response,
         x |-> reduced_matrix[i][1],
         y |-> reduced_matrix[i][2],
         cluster |-> clusters[i]]]

\* every outcome analyze can have: what it returns or raises, with the
\* library calls it made
AnalyzeOutcomes(usm, stmts, k, n_comp) ==
    IF usm = <<>> THEN {Returned(<<>>, <<>>)}
    ELSE IF ConvertRaises(usm) THEN {Raised("AttributeError")}
    ELSE LET matrix == ConvertToNumericalMatrix(usm, stmts)
         IN  IF NotEnoughData(n_comp, Len(matrix), Len(stmts))
             THEN LET clusters == [i \in 1..Len(matrix) |-> 0]
                      reduced_matrix == ReducedZeros(Len(matrix), n_comp)
                  IN  IF HasXY(reduced_matrix)
                      THEN {Returned(Combine(usm, reduced_matrix, clusters), <<>>)}
                      ELSE {Raised("IndexError")}
             ELSE LET reduced_matrix == PcaFitTransform(matrix, n_comp)
                  IN  IF KMeansRaises(reduced_matrix, k)
                      THEN {Raised("ValueError")}
                      ELSE IF HasXY(reduced_matrix)
                           THEN {Returned(Combine(usm, reduced_matrix, clusters),
                                          <<"pca", "kmeans">>) :
                                    clusters \in KMeansFitPredict(reduced_matrix, k)}
                           ELSE {Raised("IndexError")}

----------------------------------------------------------------------------
(* analyze applied to every analyzer configuration and input of the bounds. *)

MaxAnalyzeUsers == 3
MaxAnalyzeStatements == 3
MaxComponents == 3
MaxClusters == 3

AnalyzeStatementPool == <<"s1", "s2", "s3", "s4", "s5", "s6">>
AnalyzePositions == {"agree", "disagree", "pass", PyNone}
AnalyzeMappings ==
    SeqsUpTo([statement : {"s1"}, position : AnalyzePositions], 1)

AnalyzeInit ==
    /\ pc = "analyze"
    /\ n_clusters \in 1..MaxClusters
    /\ n_components \in 1..MaxComponents
    /\ \E s \in 0..MaxAnalyzeStatements :
          statements = SubSeq(AnalyzeStatementPool, 1, s)
    /\ \E u \in 0..MaxAnalyzeUsers : \E ms \in [1..u -> AnalyzeMappings] :
          user_statement_matrix =
              [i \in 1..u |-> [user_id |-> i, response |-> "r1", mapping |-> ms[i]]]
    /\ numerical_matrix = <<>>
    /\ via = "direct"
    /\ client = "ollama"
    /\ responses = <<>>
    /\ user_ids = PyNull
    /\ result = NoResult
    /\ calls = <<>>
    /\ llm = "up"
    /\ trace = <<>>
    /\ ConcIdle
    /\ RoundsIdle

Analyze ==
    /\ pc = "analyze"
    /\ pc' = "analyzed"
    /\ result' \in AnalyzeOutcomes(user_statement_matrix, statements,
                                    n_clusters, n_components)
    /\ numerical_matrix' =
          IF user_statement_matrix = <<>> \/ ConvertRaises(user_statement_matrix)
          THEN numerical_matrix
          ELSE ConvertToNumericalMatrix(user_statement_matrix, statements)
    /\ UNCHANGED <<via, client, responses, user_ids, statements,
                   user_statement_matrix, n_clusters, n_components, calls>>
    /\ UNCHANGED <<llm, trace, concVars, roundVars>>

AnalyzeNext == Analyze

SpecAnalyze == AnalyzeInit /\ [][AnalyzeNext]_vars

----------------------------------------------------------------------------
(* The matrix builder applied to every input of the bounds.                 *)

StatementTexts == {"s1", "S1"}
BuildPositions == {"agree", "Disagree", "pass", "unsure"}
BuildEntries == [statement : StatementTexts, position : BuildPositions]

\* the mapping lists of `lens` cut from the flat entry list `flat`
Offset(lens, k) == SumSeq(SubSeq(lens, 1, k - 1))

UsersOf(lens, flat) ==
    [k \in 1..Len(lens) |->
        [user_id |-> k,
         response |-> "r1",
         mapping |-> SubSeq(flat, Offset(lens, k) + 1, Offset(lens, k) + lens[k])]]

BuildInit ==
    /\ pc = "convert"
    /\ statements \in SeqsUpTo(StatementTexts, MaxStatements)
    /\ \E u \in 0..MaxUsers : \E lens \in [1..u -> 0..MaxTotalEntries] :
          /\ SumSeq(lens) <= MaxTotalEntries
          /\ \E flat \in [1..SumSeq(lens) -> BuildEntries] :
                user_statement_matrix = UsersOf(lens, flat)
    /\ numerical_matrix = <<>>
    /\ via = "direct"
    /\ client = "ollama"
    /\ responses = <<>>
    /\ user_ids = PyNull
    /\ n_clusters = 3
    /\ n_components = 2
    /\ result = NoResult
    /\ calls = <<>>
    /\ llm = "up"
    /\ trace = <<>>
    /\ ConcIdle
    /\ RoundsIdle

Convert ==
    /\ pc = "convert"
    /\ IF ConvertRaises(user_statement_matrix)
       THEN /\ pc' = "raised"
            /\ result' = Raised("AttributeError")
            /\ UNCHANGED numerical_matrix
       ELSE /\ pc' = "converted"
            /\ numerical_matrix' =
                   ConvertToNumericalMatrix(user_statement_matrix, statements)
            /\ UNCHANGED result
    /\ UNCHANGED <<via, client, responses, user_ids, statements,
                   user_statement_matrix, n_clusters, n_components, calls>>
    /\ UNCHANGED <<llm, trace, concVars, roundVars>>

BuildNext == Convert

SpecBuild == BuildInit /\ [][BuildNext]_vars

----------------------------------------------------------------------------
(* OllamaClient                                                             *)
(*                                                                         *)
(* One request to the LLM is answered by a reply: Unreachable (the POST     *)
(* fails or times out), Prose (text that holds no JSON object) or Json(b)   *)
(* (text from which the JSON object b is extracted).                        *)

Unreachable == [kind |-> "unreachable"]
Prose == [kind |-> "text"]
Json(body) == [kind |-> "json", body |-> body]

\* generate_response: a failed request becomes the text
\* "Error generating response: ..."
GenerateResponse(reply) == IF reply.kind = "unreachable" THEN Prose ELSE reply

\* _extract_json_from_response: the parsed object, or None
ExtractJsonFromResponse(response) ==
    IF response.kind = "json" THEN response.body ELSE PyNull

\* _extract_simple_json
ExtractSimpleJson(response, fallback_structure) ==
    LET parsed == ExtractJsonFromResponse(response)
    IN  IF parsed # PyNull THEN parsed ELSE fallback_structure

MaxStatementsKept == 10
MinStatementsWanted == 3

DefaultStatements ==
    <<"This issue affects our community",
      "Action is needed to address this concern",
      "Multiple perspectives should be considered">>

\* the same without the defaults added to a list of fewer than 3
StatementsFromReplyNoDefaults(reply) ==
    LET fallback_structure ==
            [statements |-> PyList(<<"Unable to extract statements">>)]
        parsed_result ==
            ExtractSimpleJson(GenerateResponse(reply), fallback_structure)
        got == IF parsed_result.statements = PyAbsent
               THEN PyList(<<>>)
               ELSE parsed_result.statements
    IN  IF got = PyNull
        THEN <<"Error extracting statements">>
        ELSE IF Len(got.v) > MaxStatementsKept
             THEN SubSeq(got.v, 1, MaxStatementsKept)
             ELSE got.v

\* what extract_statements does with the reply to its request
StatementsFromReply(reply) ==
    LET fallback_structure ==
            [statements |-> PyList(<<"Unable to extract statements">>)]
        parsed_result ==
            ExtractSimpleJson(GenerateResponse(reply), fallback_structure)
        got == IF parsed_result.statements = PyAbsent
               THEN PyList(<<>>)
               ELSE parsed_result.statements
    IN  IF got = PyNull
        THEN <<"Error extracting statements">>      \* len(None): except branch
        ELSE IF Len(got.v) > MaxStatementsKept
             THEN SubSeq(got.v, 1, MaxStatementsKept)
             ELSE IF Len(got.v) < MinStatementsWanted
                  THEN got.v \o DefaultStatements
                  ELSE got.v

\* extract_statements without its `if not responses` guard
ExtractStatementsNoGuard(resps, reply) ==
    [statements |-> StatementsFromReply(reply), llm |-> TRUE]

\* extract_statements: the statements returned, and whether a request was
\* sent to the LLM (none is when `responses` is empty)
ExtractStatements(resps, reply) ==
    IF resps = <<>>
    THEN [statements |-> <<>>, llm |-> FALSE]
    ELSE [statements |-> StatementsFromReply(reply), llm |-> TRUE]

PassEntry(stmt) == [statement |-> stmt, position |-> "pass"]

AllPass(stmts) == [i \in 1..Len(stmts) |-> PassEntry(stmts[i])]

\* covered_statements = {m.get("statement", "") for m in mapping}
CoveredStatements(mapping) ==
    {IF mapping[k].statement = NoKey THEN "" ELSE mapping[k].statement :
        k \in 1..Len(mapping)}

\* the statements appended as 'pass', in the order of the statement list
RECURSIVE Uncovered(_, _)
Uncovered(stmts, covered) ==
    IF stmts = <<>> THEN <<>>
    ELSE IF Head(stmts) \in covered
         THEN Uncovered(Tail(stmts), covered)
         ELSE <<PassEntry(Head(stmts))>> \o Uncovered(Tail(stmts), covered)

\* the same with the completion loop left out
MapResponseToStatementsNoFill(stmts, reply) ==
    IF stmts = <<>> THEN <<>>
    ELSE LET fallback_structure == [mapping |-> PyList(AllPass(stmts))]
             parsed_result ==
                 ExtractSimpleJson(GenerateResponse(reply), fallback_structure)
             got == IF parsed_result.mapping = PyAbsent
                    THEN PyList(<<>>)
                    ELSE parsed_result.mapping
         IN  IF got = PyNull THEN AllPass(stmts) ELSE got.v

\* map_response_to_statements, for the reply the LLM gives to its request
MapResponseToStatements(stmts, reply) ==
    IF stmts = <<>> THEN <<>>
    ELSE LET fallback_structure == [mapping |-> PyList(AllPass(stmts))]
             parsed_result ==
                 ExtractSimpleJson(GenerateResponse(reply), fallback_structure)
             got == IF parsed_result.mapping = PyAbsent
                    THEN PyList(<<>>)
                    ELSE parsed_result.mapping
         IN  IF got = PyNull
             THEN AllPass(stmts)                    \* iterating None: except branch
             ELSE got.v \o Uncovered(stmts, CoveredStatements(got.v))

----------------------------------------------------------------------------
(* _run_polis_analysis and the endpoint polis_analysis_for_event_round      *)

DefaultNClusters == 3
DefaultNComponents == 2

HttpError(status, detail) ==
    [kind |-> "raise", exc |-> "HTTPException", status |-> status, detail |-> detail]

RunReturned(stmts, analysis) ==
    [kind |-> "return", statements |-> stmts,
     users |-> analysis.users, lib |-> analysis.lib]

\* the endpoint's `except Exception` turns whatever is raised into a 500
ThroughEndpoint(v, res) ==
    IF v = "endpoint" /\ res.kind = "raise"
    THEN [kind |-> "raise", exc |-> "HTTPException", status |-> 500,
          detail |-> "Polis-style analysis for event round failed", cause |-> res]
    ELSE res

\* f"participant_{i+1}", i the Python index of the response at position k
Participant(k) == "participant_" \o ToString(k)

\* the same from the 0-based index itself
ActualUserIdZeroBased(uids, k) ==
    IF uids # PyNull /\ uids.v # <<>> /\ k <= Len(uids.v)
    THEN uids.v[k]
    ELSE "participant_" \o ToString(k - 1)

\* user_ids[i] if user_ids and i < len(user_ids) else f"participant_{i+1}"
ActualUserId(uids, k) ==
    IF uids # PyNull /\ uids.v # <<>> /\ k <= Len(uids.v)
    THEN uids.v[k]
    ELSE Participant(k)

\* the entry appended for the response at position k
UserEntry(uids, resps, k, mapping) ==
    [user_id |-> ActualUserId(uids, k), response |-> resps[k], mapping |-> mapping]

----------------------------------------------------------------------------
(* One analysis run, for every input and every LLM behaviour of the bounds. *)

MaxResponses == 3
MaxStubStatements == 3

ResponsePool == <<"r2", "r1", "r2", "r3", "r1", "r4">>
ResponseList(n) == SubSeq(ResponsePool, 1, n)

UserIdList(n) == [i \in 1..n |-> "u" \o ToString(i)]

LLMStatements(k) == [i \in 1..k |-> "t" \o ToString(i)]

\* the lengths of the statement lists the LLM answers with: around the two
\* thresholds of extract_statements
LLMStatementCounts ==
    (0..MinStatementsWanted) \cup {MaxStatementsKept, MaxStatementsKept + 1}

\* what the LLM may answer to the extraction request
StatementReplies ==
    {Unreachable, Prose,
     Json([statements |-> PyNull]), Json([statements |-> PyAbsent]),
     Json([statements |-> PyList(<<"t1", "t2", "t1">>)])}
    \cup {Json([statements |-> PyList(LLMStatements(k))]) : k \in LLMStatementCounts}

\* the mapping lists an answer to the mapping request may hold
MappingLists(stmts) ==
    IF stmts = <<>> THEN {<<>>}
    ELSE
    LET first == stmts[1]
        last == stmts[Len(stmts)]
    IN  {<<>>,
         <<[statement |-> first, position |-> "agree"],
           [statement |-> first, position |-> "Disagree"]>>,
         <<[statement |-> "zz", position |-> "agree"],
           [statement |-> last, position |-> "disagree"]>>,
         <<[statement |-> first, position |-> PyNone]>>}

\* what the LLM may answer to a mapping request
MappingReplies(stmts) ==
    {Unreachable, Prose, Json([mapping |-> PyNull]), Json([mapping |-> PyAbsent])}
    \cup {Json([mapping |-> PyList(m)]) : m \in MappingLists(stmts)}

\* what the LLM answers while it is down: _make_request raises for every
\* request, by a timeout or a failed connection
Answers(state, replies) == IF state = "down" THEN {Unreachable} ELSE replies

\* the stages of _run_polis_analysis as they begin, with their arguments
ExtractCall(resps) == [op |-> "extract_statements", responses |-> resps]

\* the mapping calls made over the responses from the last to the first
MapCallReversed(resps, k, stmts) ==
    [op |-> "map_response_to_statements",
     response_text |-> resps[Len(resps) + 1 - k], statements |-> stmts]

MapCall(resps, k, stmts) ==
    [op |-> "map_response_to_statements",
     response_text |-> resps[k], statements |-> stmts]

BuildStage(usm, stmts) ==
    [op |-> "_convert_to_numerical_matrix", users |-> Len(usm), statements |-> stmts]
ReduceStage == [op |-> "reduce_and_cluster"]
AssembleStage == [op |-> "assemble"]

\* the stages analyze began before it returned or raised `outcome`
AnalyzeStages(usm, stmts, outcome) ==
    IF usm = <<>> THEN <<>>
    ELSE IF outcome = Raised("AttributeError") THEN <<BuildStage(usm, stmts)>>
    ELSE IF outcome = Raised("ValueError") THEN <<BuildStage(usm, stmts), ReduceStage>>
    ELSE <<BuildStage(usm, stmts), ReduceStage, AssembleStage>>

\* what a test double may return
StubStatementLists == {LLMStatements(k) : k \in 0..MaxStubStatements}

RunInit ==
    /\ pc = "run_begin"
    /\ via \in {"direct", "endpoint"}
    /\ client \in {"ollama", "stub"}
    /\ llm \in IF client = "ollama" THEN {"up", "down"} ELSE {"up"}
    /\ trace = <<>>
    /\ ConcIdle
    /\ RoundsIdle
    /\ \E n \in 0..MaxResponses :
          /\ responses = ResponseList(n)
          /\ user_ids \in
               IF via = "endpoint"
               THEN {PyList(UserIdList(n))}
               ELSE {PyNull} \cup {PyList(UserIdList(l)) : l \in 0..(n + 1)}
    /\ statements = <<>>
    /\ user_statement_matrix = <<>>
    /\ numerical_matrix = <<>>
    /\ n_clusters = DefaultNClusters
    /\ n_components = DefaultNComponents
    /\ result = NoResult
    /\ calls = <<>>

\* polis_analysis_for_event_round with no response rows: the 404 raised inside
\* the try block is caught by the handler's own `except Exception`
EndpointNoResponses ==
    /\ pc = "run_begin"
    /\ via = "endpoint"
    /\ responses = <<>>
    /\ pc' = "run_done"
    /\ result' = ThroughEndpoint(via,
                     HttpError(404, "No responses found for this event round."))
    /\ UNCHANGED <<via, client, responses, user_ids, statements,
                   user_statement_matrix, numerical_matrix, n_clusters,
                   n_components, calls>>
    /\ UNCHANGED <<llm, trace, concVars, roundVars>>

\* `if not statements`
NoStatementsNever(stmts) == FALSE

NoStatements(stmts) == stmts = <<>>

\* step 1 of _run_polis_analysis, up to the check of `statements`
RunExtract ==
    /\ pc = "run_begin"
    /\ via = "direct" \/ responses # <<>>
    /\ \E got \in IF client = "stub"
                  THEN {[statements |-> l, llm |-> FALSE] : l \in StubStatementLists}
                  ELSE {ExtractStatements(responses, reply) :
                           reply \in Answers(llm, StatementReplies)} :
          /\ statements' = got.statements
          /\ calls' = calls \o <<"extract_statements">>
                            \o (IF got.llm THEN <<"llm">> ELSE <<>>)
          /\ IF NoStatements(got.statements)
             THEN /\ pc' = "run_done"
                  /\ result' = ThroughEndpoint(via,
                        HttpError(500, "Failed to extract statements for analysis."))
             ELSE /\ pc' = IF responses = <<>> THEN "run_analyze" ELSE "run_map"
                  /\ UNCHANGED result
    /\ trace' = Append(trace, ExtractCall(responses))
    /\ UNCHANGED <<via, client, responses, user_ids, user_statement_matrix,
                   numerical_matrix, n_clusters, n_components>>
    /\ UNCHANGED <<llm, concVars, roundVars>>

\* one iteration of the loop of step 2
RunMap ==
    /\ pc = "run_map"
    /\ LET k == Len(user_statement_matrix) + 1
       IN  /\ \E mapping \in IF client = "stub"
                             THEN MappingLists(statements)
                             ELSE {MapResponseToStatements(statements, reply) :
                                      reply \in Answers(llm, MappingReplies(statements))} :
                 user_statement_matrix' =
                     Append(user_statement_matrix,
                            UserEntry(user_ids, responses, k, mapping))
           /\ pc' = IF k = Len(responses) THEN "run_analyze" ELSE "run_map"
           /\ trace' = Append(trace, MapCall(responses, k, statements))
    /\ calls' = calls \o <<"map_response_to_statements">>
                      \o (IF client = "ollama" THEN <<"llm">> ELSE <<>>)
    /\ UNCHANGED <<via, client, responses, user_ids, statements,
                   numerical_matrix, n_clusters, n_components, result>>
    /\ UNCHANGED <<llm, concVars, roundVars>>

\* step 3: OpinionAnalyzer().analyze(user_statement_matrix, statements), and
\* the return
RunAnalyze ==
    /\ pc = "run_analyze"
    /\ pc' = "run_done"
    /\ \E outcome \in AnalyzeOutcomes(user_statement_matrix, statements,
                                      n_clusters, n_components) :
          /\ result' = IF outcome.kind = "return"
                       THEN RunReturned(statements, outcome)
                       ELSE ThroughEndpoint(via, outcome)
          /\ trace' = trace \o AnalyzeStages(user_statement_matrix, statements,
                                              outcome)
    /\ numerical_matrix' =
          IF user_statement_matrix = <<>> \/ ConvertRaises(user_statement_matrix)
          THEN numerical_matrix
          ELSE ConvertToNumericalMatrix(user_statement_matrix, statements)
    /\ UNCHANGED <<via, client, responses, user_ids, statements,
                   user_statement_matrix, n_clusters, n_components, calls>>
    /\ UNCHANGED <<llm, concVars, roundVars>>

RunNext == EndpointNoResponses \/ RunExtract \/ RunMap \/ RunAnalyze

Spec == RunInit /\ [][RunNext]_vars


----------------------------------------------------------------------------
(* Analysis runs that execute concurrently.  Each run is a call of          *)
(* _run_polis_analysis with its own local variables (a frame); the runs     *)
(* share the module-level ollama_client and the heap on which every         *)
(* OpinionAnalyzer() is allocated.  A run takes one step at a time: a call  *)
(* on the client, the construction of the analyzer, and the stages of       *)
(* analyze; between two steps of a run the other runs may step.             *)

MaxRuns == 2

Runs == 1..MaxRuns

\* ollama_client = OllamaClient()
OllamaClientInit ==
    [base_url |-> "http://localhost:11434",
     model |-> "llama3.2:latest",
     api_url |-> "http://localhost:11434/api"]

\* the state PCA and KMeans keep after fitting: the data they were fitted on
Fit(data) == [t |-> "fit", on |-> data]

\* OpinionAnalyzer.__init__
NewOpinionAnalyzer ==
    [n_clusters |-> DefaultNClusters, n_components |-> DefaultNComponents,
     pca |-> PyNull, kmeans |-> PyNull]

\* one module-level analyzer, created by the first run and used by all
AllocOpinionAnalyzerShared(h) ==
    IF h = <<>>
    THEN [heap |-> <<NewOpinionAnalyzer>>, ref |-> 1]
    ELSE [heap |-> h, ref |-> 1]

\* opinion_analyzer = OpinionAnalyzer(): a new object on every call
AllocOpinionAnalyzer(h) ==
    [heap |-> Append(h, NewOpinionAnalyzer), ref |-> Len(h) + 1]

\* the arguments of run r: the first run has as many responses as there are
\* clusters (the least KMeans accepts), the other runs have one
ConcResponses(r) == ResponseList(IF r = 1 THEN DefaultNClusters ELSE 1)
ConcUserIds(r) ==
    IF r = 1 THEN PyList(UserIdList(Len(ConcResponses(r)))) ELSE PyNull

ConcStatementReplies ==
    {Json([statements |-> PyList(LLMStatements(MinStatementsWanted))])}

ConcMappingReplies(stmts) ==
    {Unreachable,
     Json([mapping |-> PyList(<<[statement |-> stmts[1], position |-> "agree"]>>)])}

NewFrame(r) ==
    [pc |-> "extract",
     responses |-> ConcResponses(r),
     user_ids |-> ConcUserIds(r),
     statements |-> <<>>,
     user_statement_matrix |-> <<>>,
     opinion_analyzer |-> 0,
     numerical_matrix |-> <<>>,
     reduced_matrix |-> <<>>,
     clusters |-> <<>>,
     lib |-> <<>>,
     answers |-> <<>>,
     result |-> NoResult]

ConcInit ==
    /\ frames = [r \in Runs |-> NewFrame(r)]
    /\ heap = <<>>
    /\ ollama_client = OllamaClientInit
    /\ PipeIdle
    /\ RoundsIdle

\* statements_result = ollama_client.extract_statements(responses)
ConcExtract(r) ==
    /\ frames[r].pc = "extract"
    /\ \E reply \in ConcStatementReplies :
          LET f == frames[r]
              got == ExtractStatements(f.responses, reply)
          IN  frames' = [frames EXCEPT ![r] =
                 IF NoStatements(got.statements)
                 THEN [f EXCEPT !.pc = "done",
                                !.answers = Append(@, reply),
                                !.result = HttpError(500,
                                    "Failed to extract statements for analysis.")]
                 ELSE [f EXCEPT !.pc = "map",
                                !.answers = Append(@, reply),
                                !.statements = got.statements]]
    /\ UNCHANGED <<heap, ollama_client, pipeVars, roundVars>>

\* one iteration of the mapping loop of run r
ConcMap(r) ==
    /\ frames[r].pc = "map"
    /\ LET f == frames[r]
           k == Len(f.user_statement_matrix) + 1
       IN  \E reply \in ConcMappingReplies(f.statements) :
              frames' = [frames EXCEPT ![r] =
                 [f EXCEPT !.pc = IF k = Len(f.responses) THEN "construct" ELSE "map",
                           !.answers = Append(@, reply),
                           !.user_statement_matrix =
                               Append(@, UserEntry(f.user_ids, f.responses, k,
                                          MapResponseToStatements(f.statements, reply)))]]
    /\ UNCHANGED <<heap, ollama_client, pipeVars, roundVars>>

\* opinion_analyzer = OpinionAnalyzer()
ConcConstruct(r) ==
    /\ frames[r].pc = "construct"
    /\ LET new == AllocOpinionAnalyzer(heap)
       IN  /\ heap' = new.heap
           /\ frames' = [frames EXCEPT ![r].pc = "convert",
                                       ![r].opinion_analyzer = new.ref]
    /\ UNCHANGED <<ollama_client, pipeVars, roundVars>>

\* analyze, up to the matrix: the empty guard and _convert_to_numerical_matrix
ConcConvert(r) ==
    /\ frames[r].pc = "convert"
    /\ LET f == frames[r]
       IN  frames' = [frames EXCEPT ![r] =
              IF f.user_statement_matrix = <<>>
              THEN [f EXCEPT !.pc = "done",
                             !.result = RunReturned(f.statements, Returned(<<>>, <<>>))]
              ELSE IF ConvertRaises(f.user_statement_matrix)
              THEN [f EXCEPT !.pc = "done", !.result = Raised("AttributeError")]
              ELSE [f EXCEPT !.pc = "reduce",
                             !.numerical_matrix =
                                 ConvertToNumericalMatrix(f.user_statement_matrix,
                                                          f.statements)]]
    /\ UNCHANGED <<heap, ollama_client, pipeVars, roundVars>>

\* the fallback, or self.pca.fit_transform(numerical_matrix)
ConcReduce(r) ==
    /\ frames[r].pc = "reduce"
    /\ LET f == frames[r]
           self == heap[f.opinion_analyzer]
       IN  IF NotEnoughData(self.n_components, Len(f.numerical_matrix),
                            Len(f.statements))
           THEN /\ frames' = [frames EXCEPT ![r] =
                      [f EXCEPT !.pc = "assemble",
                                !.clusters = [i \in 1..Len(f.numerical_matrix) |-> 0],
                                !.reduced_matrix =
                                    ReducedZeros(Len(f.numerical_matrix),
                                                 self.n_components)]]
                /\ UNCHANGED heap
           ELSE /\ frames' = [frames EXCEPT ![r] =
                      [f EXCEPT !.pc = "cluster",
                                !.lib = Append(@, "pca"),
                                !.reduced_matrix =
                                    PcaFitTransform(f.numerical_matrix,
                                                    self.n_components)]]
                /\ heap' = [heap EXCEPT ![f.opinion_analyzer].pca =
                                            Fit(f.numerical_matrix)]
    /\ UNCHANGED <<ollama_client, pipeVars, roundVars>>

\* clusters = self.kmeans.fit_predict(reduced_matrix)
ConcCluster(r) ==
    /\ frames[r].pc = "cluster"
    /\ LET f == frames[r]
           self == heap[f.opinion_analyzer]
       IN  IF KMeansRaises(f.reduced_matrix, self.n_clusters)
           THEN /\ frames' = [frames EXCEPT ![r] =
                      [f EXCEPT !.pc = "done", !.result = Raised("ValueError")]]
                /\ UNCHANGED heap
           ELSE /\ \E clusters \in KMeansFitPredict(f.reduced_matrix, self.n_clusters) :
                      frames' = [frames EXCEPT ![r] =
                         [f EXCEPT !.pc = "assemble",
                                   !.lib = Append(@, "kmeans"),
                                   !.clusters = clusters]]
                /\ heap' = [heap EXCEPT ![f.opinion_analyzer].kmeans =
                                            Fit(f.reduced_matrix)]
    /\ UNCHANGED <<ollama_client, pipeVars, roundVars>>

\* the result loop of analyze and the return of _run_polis_analysis
ConcAssemble(r) ==
    /\ frames[r].pc = "assemble"
    /\ LET f == frames[r]
       IN  frames' = [frames EXCEPT ![r] =
              [f EXCEPT !.pc = "done",
                        !.result =
                            IF HasXY(f.reduced_matrix)
                            THEN RunReturned(f.statements,
                                     Returned(Combine(f.user_statement_matrix,
                                                      f.reduced_matrix, f.clusters),
                                              f.lib))
                            ELSE Raised("IndexError")]]
    /\ UNCHANGED <<heap, ollama_client, pipeVars, roundVars>>

ConcNext ==
    \E r \in Runs :
        \/ ConcExtract(r)
        \/ ConcMap(r)
        \/ ConcConstruct(r)
        \/ ConcConvert(r)
        \/ ConcReduce(r)
        \/ ConcCluster(r)
        \/ ConcAssemble(r)

SpecConcurrent == ConcInit /\ [][ConcNext]_vars

----------------------------------------------------------------------------
(* The rounds of one event: routers/events_local.py, and the synthesis      *)
(* endpoints of routers/ai_analysis_local.py.                               *)
(*                                                                         *)
(* db holds the rows that belong to the event: Event.current_round, the     *)
(* status of the EventRound row of each round number (NoRow when there is   *)
(* none; the table has a unique constraint on the round number), the        *)
(* question texts of the Inquiry rows of each round, the number of          *)
(* Response rows to the inquiries of each round, and the Synthesis rows in  *)
(* the order of their creation.                                             *)

MaxRound == 3
MaxRequests == 4
MaxRoundResponses == 1

RoundNumbers == 1..MaxRound

\* EventRoundStatus
WAITING_FOR_RESPONSES == "waiting_for_responses"
IN_ANALYSIS == "in_analysis"
ADMIN_REVIEW == "admin_review"
COMPLETED == "completed"
NoRow == "<no row>"

\* who makes a request
Users == {"organizer", "participant"}

\* create_event: round 1 is waiting for responses, with the inquiries given
NewEventDb(inquiry_texts) ==
    [current_round |-> 1,
     status |-> "draft",
     event_rounds |-> [n \in RoundNumbers |->
                          IF n = 1 THEN WAITING_FOR_RESPONSES ELSE NoRow],
     inquiries |-> [n \in RoundNumbers |-> IF n = 1 THEN inquiry_texts ELSE <<>>],
     responses |-> [n \in RoundNumbers |-> 0],
     syntheses |-> <<>>]

RoundsInit ==
    /\ \E inquiry_texts \in {<<>>, <<"q1">>} : db = NewEventDb(inquiry_texts)
    /\ background_tasks = 0
    /\ task_frames = <<>>
    /\ requests = 0
    /\ served = <<>>
    /\ PipeIdle
    /\ ConcIdle

\* the response to a request: the handler, the caller, the path parameter
\* and the status code
HttpResponse(op, current_user, arg, status_code) ==
    [op |-> op, current_user |-> current_user, arg |-> arg,
     status_code |-> status_code]

\* get_event_round_state
GetEventRoundState(d) ==
    IF d.event_rounds[d.current_round] = NoRow
    THEN [current_round |-> 1, status |-> WAITING_FOR_RESPONSES]
    ELSE [current_round |-> d.current_round,
          status |-> d.event_rounds[d.current_round]]

\* the newest synthesis of a round: order_by(created_at.desc()).first()
SynthesesOf(d, round_number) ==
    {i \in 1..Len(d.syntheses) : d.syntheses[i].round_number = round_number}

Newest(indices) == CHOOSE i \in indices : \A j \in indices : j <= i

\* get_synthesis_for_review of ai_analysis_local.py
GetSynthesisForReview(d, round_number) ==
    IF round_number \notin RoundNumbers \/ d.event_rounds[round_number] = NoRow
    THEN HttpError(404, "Event round not found.")
    ELSE IF d.event_rounds[round_number] # ADMIN_REVIEW
    THEN HttpError(400, "Round is not in review state.")
    ELSE LET synthesis_round ==
                 IF round_number > 1 THEN round_number - 1 ELSE round_number
         IN  IF SynthesesOf(d, synthesis_round) = {}
             THEN HttpError(404, "Synthesis for this round not found.")
             ELSE [kind |-> "return",
                   synthesis |-> d.syntheses[Newest(SynthesesOf(d, synthesis_round))]]

\* get_event_round_results: the approved syntheses of the rounds up to
\* round_number
GetEventRoundResults(d, round_number) ==
    {i \in 1..Len(d.syntheses) :
        /\ d.syntheses[i].round_number <= round_number
        /\ d.syntheses[i].status = "approved"}

\* create_response / submit_round_responses, to an inquiry of round n
CreateResponse(n) ==
    /\ requests < MaxRequests
    /\ db.inquiries[n] # <<>>
    /\ db.responses[n] < MaxRoundResponses
    /\ db' = [db EXCEPT !.responses[n] = @ + 1]
    /\ requests' = requests + 1
    /\ served' = Append(served, HttpResponse("create_response", "participant", n, 201))
    /\ UNCHANGED <<background_tasks, task_frames, pipeVars, concVars>>

\* advance_to_next_round without the check of the caller
AdvanceToNextRoundAnyCaller(current_user) ==
    /\ requests < MaxRequests
    /\ requests' = requests + 1
    /\ db' = IF db.event_rounds[db.current_round] # NoRow
             THEN [db EXCEPT !.event_rounds[db.current_round] = IN_ANALYSIS]
             ELSE db
    /\ background_tasks' = background_tasks + 1
    /\ served' = Append(served, HttpResponse("advance_to_next_round",
                                              current_user, 0, 202))
    /\ UNCHANGED <<task_frames, pipeVars, concVars>>

\* advance_to_next_round: the handler
AdvanceToNextRound(current_user) ==
    /\ requests < MaxRequests
    /\ requests' = requests + 1
    /\ IF current_user # "organizer"
       THEN /\ served' = Append(served, HttpResponse("advance_to_next_round",
                                                      current_user, 0, 403))
            /\ UNCHANGED <<db, background_tasks>>
       ELSE /\ db' = IF db.event_rounds[db.current_round] # NoRow
                     THEN [db EXCEPT !.event_rounds[db.current_round] = IN_ANALYSIS]
                     ELSE db
            /\ background_tasks' = background_tasks + 1
            /\ served' = Append(served, HttpResponse("advance_to_next_round",
                                                      current_user, 0, 202))
    /\ UNCHANGED <<task_frames, pipeVars, concVars>>

\* the prompts of the checked instances: records of 'title' and 'content'
LLMPrompts ==
    <<[title |-> "p1", content |-> "c1"], [title |-> "p2", content |-> "c2"]>>

\* the "Simple fallback prompts" of run_analysis_and_advance
FallbackPrompts ==
    <<[title |-> "Implementation Planning",
       content |-> "Based on the themes identified, what specific steps should we take to move forward?"],
      [title |-> "Resource Considerations",
       content |-> "What resources or support would be needed to implement the proposed solutions?"]>>

\* what the LLM may answer to the request of generate_round_insights: no
\* answer, a JSON object, a JSON array
InsightReplies ==
    {Unreachable, Json([summary |-> "LLM summary"]), Json(PyList(<<>>))}

\* what the LLM may answer to the request of generate_next_inquiries
InquiryReplies ==
    {Unreachable,
     Json([inquiries |-> PyList(LLMPrompts)]),
     Json([inquiries |-> PyList(<<[title |-> "p1", content |-> NoKey]>>)])}

\* generate_round_insights
GenerateRoundInsights(reply) ==
    ExtractSimpleJson(GenerateResponse(reply),
                      [summary |-> "Unable to parse round analysis"])

\* analysis_result.get(...) raises AttributeError on a value that is no dict
IsDict(value) == value # PyList(<<>>)

\* all("title" in i and "content" in i for i in inquiries)
WellFormed(inquiries) ==
    \A i \in 1..Len(inquiries) :
        inquiries[i].title # NoKey /\ inquiries[i].content # NoKey

\* generate_next_inquiries
GenerateNextInquiries(reply) ==
    LET parsed_json ==
            ExtractSimpleJson(GenerateResponse(reply), [inquiries |-> PyList(<<>>)])
        inquiries == parsed_json.inquiries
    IN  IF inquiries.t = "list" /\ WellFormed(inquiries.v) THEN inquiries.v ELSE <<>>

\* steps 3 to 5 of run_analysis_and_advance: the summary and the prompts,
\* from the LLM or, when the analysis raises, from the fallback
AnalysisOf(insight_reply, inquiry_reply, frame) ==
    LET analysis_result == GenerateRoundInsights(insight_reply)
    IN  IF IsDict(analysis_result)
        THEN [summary |-> analysis_result.summary,
              next_prompts |-> GenerateNextInquiries(inquiry_reply)]
        ELSE [summary |-> "Analysis of responses (fallback)",
              next_prompts |-> FallbackPrompts]

\* question_text=prompt.get('content', 'Untitled Prompt')
QuestionTexts(prompts) == [i \in 1..Len(prompts) |-> prompts[i].content]

\* question_text=prompt_data.get('title', 'Untitled Inquiry')
QuestionTitles(prompts) == [i \in 1..Len(prompts) |-> prompts[i].title]

\* run_analysis_and_advance, steps 1 and 2: the task reads the event, the
\* inquiries and the responses of the current round; with no responses it
\* puts the round in admin review and returns.  The frame also keeps, as
\* history, how many Synthesis rows there were when the task began.
TaskBegin ==
    /\ background_tasks > 0
    /\ background_tasks' = background_tasks - 1
    /\ LET current_round_number == db.current_round
       IN  IF db.responses[current_round_number] = 0
           THEN /\ db' = IF db.event_rounds[current_round_number] # NoRow
                         THEN [db EXCEPT !.event_rounds[current_round_number] =
                                             ADMIN_REVIEW]
                         ELSE db
                /\ UNCHANGED task_frames
           ELSE /\ task_frames' =
                       Append(task_frames,
                              [current_round_number |-> current_round_number,
                               responses |-> db.responses[current_round_number],
                               inquiries |-> db.inquiries[current_round_number],
                               syntheses_before |-> Len(db.syntheses)])
                /\ UNCHANGED db
    /\ UNCHANGED <<requests, served, pipeVars, concVars>>

\* what steps 6 to 8 write, before the commit
TaskWrites(d, frame, analysis) ==
    LET n == frame.current_round_number
        synthesis == [round_number |-> n,
                      status |-> "approved",
                      summary |-> analysis.summary,
                      next_round_prompts |-> analysis.next_prompts,
                      response_count_basis |-> frame.responses]
        d6 == [d EXCEPT !.syntheses = Append(@, synthesis)]
        d7 == IF analysis.next_prompts # <<>>
              THEN [d6 EXCEPT !.inquiries[n + 1] =
                                  @ \o QuestionTexts(analysis.next_prompts),
                              !.event_rounds[n + 1] = ADMIN_REVIEW,
                              !.current_round = n + 1]
              ELSE d6
    IN  IF d.event_rounds[n] # NoRow
        THEN [d7 EXCEPT !.event_rounds[n] = COMPLETED]
        ELSE d7

\* the INSERT of a second EventRound row for a round number violates
\* unique_event_round: the commit raises and the task rolls back
TaskCommitFails(d, frame, analysis) ==
    /\ analysis.next_prompts # <<>>
    /\ d.event_rounds[frame.current_round_number + 1] # NoRow

\* run_analysis_and_advance, steps 3 to 8, of the running task i
TaskFinish(i) ==
    /\ i \in 1..Len(task_frames)
    /\ task_frames[i].current_round_number < MaxRound
    /\ \E insight_reply \in InsightReplies, inquiry_reply \in InquiryReplies :
          LET frame == task_frames[i]
              analysis == AnalysisOf(insight_reply, inquiry_reply, frame)
          IN  db' = IF TaskCommitFails(db, frame, analysis)
                   THEN db
                   ELSE TaskWrites(db, frame, analysis)
    /\ task_frames' = [k \in 1..(Len(task_frames) - 1) |->
                          IF k < i THEN task_frames[k] ELSE task_frames[k + 1]]
    /\ UNCHANGED <<background_tasks, requests, served, pipeVars, concVars>>

\* the prompts an organizer may send to approve-synthesis
ApprovedPrompts == {<<>>, LLMPrompts}

\* approve_synthesis_and_advance: no check of the caller; the inquiries of
\* the next round are replaced, the round number is increased and a new
\* round row is inserted.  The deletion of an inquiry that has responses
\* (responses.inquiry_id is NOT NULL) and the insertion of a second row for
\* a round number (unique_event_round) make the commit raise.
ApproveSynthesisAndAdvance(prompts) ==
    /\ requests < MaxRequests
    /\ requests' = requests + 1
    /\ db.current_round < MaxRound
    /\ LET next_round_number == db.current_round + 1
       IN  IF \/ db.responses[next_round_number] > 0
              \/ db.event_rounds[next_round_number] # NoRow
           THEN /\ served' = Append(served,
                                     HttpResponse("approve_synthesis_and_advance",
                                                  "anyone", 0, 500))
                /\ UNCHANGED db
           ELSE /\ db' = [db EXCEPT !.inquiries[next_round_number] =
                                        QuestionTitles(prompts),
                                    !.current_round = next_round_number,
                                    !.event_rounds[next_round_number] =
                                        WAITING_FOR_RESPONSES]
                /\ served' = Append(served,
                                     HttpResponse("approve_synthesis_and_advance",
                                                  "anyone", 0, 200))
    /\ UNCHANGED <<background_tasks, task_frames, pipeVars, concVars>>

\* the prompts an organizer may put in the place of the generated ones
EditedPrompts == <<[title |-> "p1", content |-> "EDITED: c1"]>>

\* update_synthesis_review, of the synthesis i: no check of the caller
UpdateSynthesisReview(i, prompts) ==
    /\ requests < MaxRequests
    /\ requests' = requests + 1
    /\ i \in 1..Len(db.syntheses)
    /\ db' = [db EXCEPT !.syntheses[i].next_round_prompts = prompts]
    /\ served' = Append(served, HttpResponse("update_synthesis_review",
                                              "anyone", i, 200))
    /\ UNCHANGED <<background_tasks, task_frames, pipeVars, concVars>>

\* approve_synthesis_review without the check of the caller
ApproveSynthesisReviewAnyCaller(i, current_user) ==
    /\ requests < MaxRequests
    /\ requests' = requests + 1
    /\ i \in 1..Len(db.syntheses)
    /\ db.syntheses[i].round_number < MaxRound
    /\ LET synthesis == db.syntheses[i]
           next_round_number == synthesis.round_number + 1
           d2 == [db EXCEPT !.syntheses[i].status = "approved",
                            !.inquiries[next_round_number] =
                                @ \o QuestionTexts(synthesis.next_round_prompts),
                            !.event_rounds[next_round_number] =
                                WAITING_FOR_RESPONSES,
                            !.current_round = next_round_number]
       IN  /\ db' = IF db.event_rounds[synthesis.round_number] # NoRow
                    THEN [d2 EXCEPT !.event_rounds[synthesis.round_number] =
                                        COMPLETED]
                    ELSE d2
           /\ served' = Append(served, HttpResponse("approve_synthesis_review",
                                                     current_user, i, 200))
    /\ UNCHANGED <<background_tasks, task_frames, pipeVars, concVars>>

\* approve_synthesis_review, of the synthesis i
ApproveSynthesisReview(i, current_user) ==
    /\ requests < MaxRequests
    /\ requests' = requests + 1
    /\ i \in 1..Len(db.syntheses)
    /\ db.syntheses[i].round_number < MaxRound
    /\ LET synthesis == db.syntheses[i]
           next_round_number == synthesis.round_number + 1
           d2 == [db EXCEPT !.syntheses[i].status = "approved",
                            !.inquiries[next_round_number] =
                                @ \o QuestionTexts(synthesis.next_round_prompts),
                            !.event_rounds[next_round_number] =
                                WAITING_FOR_RESPONSES,
                            !.current_round = next_round_number]
       IN  IF current_user # "organizer"
           THEN /\ served' = Append(served, HttpResponse("approve_synthesis_review",
                                                          current_user, i, 403))
                /\ UNCHANGED db
           ELSE /\ db' = IF db.event_rounds[synthesis.round_number] # NoRow
                         THEN [d2 EXCEPT !.event_rounds[synthesis.round_number] =
                                             COMPLETED]
                         ELSE d2
                /\ served' = Append(served, HttpResponse("approve_synthesis_review",
                                                          current_user, i, 200))
    /\ UNCHANGED <<background_tasks, task_frames, pipeVars, concVars>>

\* end_dialogue
EndDialogue(current_user) ==
    /\ requests < MaxRequests
    /\ requests' = requests + 1
    /\ IF current_user # "organizer"
       THEN /\ served' = Append(served, HttpResponse("end_dialogue",
                                                      current_user, 0, 403))
            /\ UNCHANGED db
       ELSE /\ db' = IF db.event_rounds[db.current_round] # NoRow
                     THEN [db EXCEPT !.status = "closed",
                                     !.event_rounds[db.current_round] = COMPLETED]
                     ELSE [db EXCEPT !.status = "closed"]
            /\ served' = Append(served, HttpResponse("end_dialogue",
                                                      current_user, 0, 200))
    /\ UNCHANGED <<background_tasks, task_frames, pipeVars, concVars>>

RoundsNext ==
    \/ \E n \in RoundNumbers : CreateResponse(n)
    \/ \E current_user \in Users : AdvanceToNextRound(current_user)
    \/ TaskBegin
    \/ \E i \in 1..MaxRequests : TaskFinish(i)
    \/ \E prompts \in ApprovedPrompts : ApproveSynthesisAndAdvance(prompts)
    \/ \E i \in 1..MaxRequests, current_user \in Users :
          ApproveSynthesisReview(i, current_user)
    \/ \E i \in 1..MaxRequests : UpdateSynthesisReview(i, EditedPrompts)
    \/ \E current_user \in Users : EndDialogue(current_user)

SpecRounds == RoundsInit /\ [][RoundsNext]_vars

----------------------------------------------------------------------------
(* Claims about the matrix builder (checked under SpecBuild).               *)

Cells == {-1, 0, 1}

HasShape(matrix, num_users, num_statements) ==
    /\ Len(matrix) = num_users
    /\ \A u \in 1..Len(matrix) : Len(matrix[u]) = num_statements

\* C1: for U user mappings and S > 0 statements the built matrix has exactly
\* U rows and S columns and every cell is -1, 0 or 1, whatever texts,
\* position strings, duplicates or omissions the mapping lists contain.
C1_ShapeAndCells ==
    (pc # "convert" /\ Len(statements) > 0) =>
        /\ pc = "converted"
        /\ HasShape(numerical_matrix, Len(user_statement_matrix), Len(statements))
        /\ \A u \in 1..Len(numerical_matrix) :
              \A s \in 1..Len(numerical_matrix[u]) :
                  numerical_matrix[u][s] \in Cells

\* two users, two statements, a duplicated entry and an omitted statement
C1_Witness ==
    /\ pc = "converted"
    /\ Len(statements) = 2
    /\ Len(user_statement_matrix) = 2
    /\ user_statement_matrix[1].mapping =
           <<[statement |-> "s1", position |-> "agree"],
             [statement |-> "s1", position |-> "agree"]>>
    /\ user_statement_matrix[2].mapping =
           <<[statement |-> "S1", position |-> "Disagree"]>>
    /\ statements = <<"s1", "S1">>
    /\ numerical_matrix = <<(<<1, 0>>), (<<0, -1>>)>>

AgreeSpellings == {"agree", "Agree", "AGREE"}
DisagreeSpellings == {"disagree", "Disagree", "DISAGREE"}

NoDuplicates(seq) ==
    \A i, j \in 1..Len(seq) : seq[i] = seq[j] => i = j

AtMostOneEntryPerStatement(usm) ==
    \A u \in 1..Len(usm) :
        \A k, l \in 1..Len(usm[u].mapping) :
            usm[u].mapping[k].statement = usm[u].mapping[l].statement => k = l

\* the entries of user u that name the statement of column s
EntriesFor(u, s) ==
    {k \in 1..Len(user_statement_matrix[u].mapping) :
        user_statement_matrix[u].mapping[k].statement = statements[s]}

C2_Cell(u, s) ==
    IF \E k \in EntriesFor(u, s) :
          user_statement_matrix[u].mapping[k].position \in AgreeSpellings
    THEN 1
    ELSE IF \E k \in EntriesFor(u, s) :
               user_statement_matrix[u].mapping[k].position \in DisagreeSpellings
         THEN -1
         ELSE 0

\* C2: with at most one entry per statement (and distinct statement texts),
\* cell (u, s) is +1 when user u's entry for statement s says agree, -1 when
\* it says disagree, the position compared case-insensitively and the
\* statement text exactly, and 0 otherwise: pass, an unrecognized position,
\* no entry for s; an entry naming an unknown statement changes no cell and
\* raises nothing.
C2_CellValues ==
    (/\ pc # "convert"
     /\ NoDuplicates(statements)
     /\ AtMostOneEntryPerStatement(user_statement_matrix)) =>
        /\ pc = "converted"
        /\ HasShape(numerical_matrix, Len(user_statement_matrix), Len(statements))
        /\ \A u \in 1..Len(numerical_matrix) :
              \A s \in 1..Len(numerical_matrix[u]) :
                  numerical_matrix[u][s] = C2_Cell(u, s)

\* a mixed-case disagree, an entry for a statement that is not in the list,
\* and an unrecognized position
C2_Witness ==
    /\ pc = "converted"
    /\ statements = <<"s1">>
    /\ Len(user_statement_matrix) = 2
    /\ user_statement_matrix[1].mapping =
           <<[statement |-> "s1", position |-> "Disagree"],
             [statement |-> "S1", position |-> "agree"]>>
    /\ user_statement_matrix[2].mapping =
           <<[statement |-> "s1", position |-> "unsure"]>>
    /\ numerical_matrix = <<(<<-1>>), (<<0>>)>>

\* the entries of user u for the statement of column s that say agree or
\* disagree
DecidedEntriesFor(u, s) ==
    {k \in EntriesFor(u, s) :
        user_statement_matrix[u].mapping[k].position
            \in AgreeSpellings \cup DisagreeSpellings}

C24_Cell(u, s) ==
    IF DecidedEntriesFor(u, s) = {} THEN 0
    ELSE LET last == CHOOSE k \in DecidedEntriesFor(u, s) :
                         \A l \in DecidedEntriesFor(u, s) : l <= k
         IN  IF user_statement_matrix[u].mapping[last].position \in AgreeSpellings
             THEN 1 ELSE -1

\* C24: when a user's mapping list has several entries for one statement (of
\* a list of distinct texts), the cell has the value of the last entry that
\* says agree or disagree; a later pass or unrecognized entry does not reset
\* it, and the cell is 0 only if no entry for the statement says agree or
\* disagree.
C24_LastDecidedEntryWins ==
    (pc = "converted" /\ NoDuplicates(statements)) =>
        \A u \in 1..Len(numerical_matrix) :
            \A s \in 1..Len(numerical_matrix[u]) :
                numerical_matrix[u][s] = C24_Cell(u, s)

\* agree, then disagree, then pass for the same statement: the cell is -1
C24_Witness ==
    /\ pc = "converted"
    /\ statements = <<"s1">>
    /\ Len(user_statement_matrix) = 1
    /\ user_statement_matrix[1].mapping =
           <<[statement |-> "s1", position |-> "agree"],
             [statement |-> "s1", position |-> "Disagree"],
             [statement |-> "s1", position |-> "pass"]>>
    /\ numerical_matrix = <<(<<-1>>)>>

\* C16: when the statement list holds the same text at two columns i < j, the
\* lookup maps the text to the first column i: an entry for that text sets
\* column i, and column j stays 0 in every row.
C16_FirstOccurrenceWins ==
    pc = "converted" =>
        \A i, j \in 1..Len(statements) :
            (i < j /\ statements[i] = statements[j]) =>
                \A u \in 1..Len(numerical_matrix) :
                    /\ numerical_matrix[u][j] = 0
                    /\ Cardinality(EntriesFor(u, i)) = 1 =>
                          numerical_matrix[u][i] = C2_Cell(u, i)

----------------------------------------------------------------------------
(* Claims about analyze (checked under SpecAnalyze).                        *)

\* analyze got past the matrix builder: a non-empty user list, no
\* AttributeError
ReachedReduce ==
    /\ pc = "analyzed"
    /\ user_statement_matrix # <<>>
    /\ ~ConvertRaises(user_statement_matrix)

AllZero(users) ==
    \A i \in 1..Len(users) :
        users[i].x = Zero /\ users[i].y = Zero /\ users[i].cluster = 0

\* C3: whenever n_components >= min(users, statements) for a non-empty user
\* list, the reduce-and-cluster step runs neither PCA nor K-Means, does not
\* raise, and returns one entry per user with coordinates 0.0 and label 0.
C3_DegenerateFallback ==
    (/\ ReachedReduce
     /\ n_components >= Min(Len(user_statement_matrix), Len(statements))) =>
        /\ result.kind = "return"
        /\ result.lib = <<>>
        /\ Len(result.users) = Len(user_statement_matrix)
        /\ AllZero(result.users)

\* C9: when n_components < min(users, statements), the step returns one
\* coordinate pair and one label per user and every label is in
\* [0, n_clusters); the statement list is left as it was.
C9_ClusterLabels ==
    (/\ ReachedReduce
     /\ n_components < Min(Len(user_statement_matrix), Len(statements))) =>
        /\ result.kind = "return"
        /\ Len(result.users) = Len(user_statement_matrix)
        /\ \A i \in 1..Len(result.users) :
              result.users[i].cluster \in 0..(n_clusters - 1)
        /\ statements = SubSeq(AnalyzeStatementPool, 1, Len(statements))

\* the scenario of C10: three users, one statement, agree / disagree / pass,
\* an analyzer with n_components = 1
C10_Scenario ==
    /\ pc = "analyzed"
    /\ n_components = 1
    /\ statements = <<"s1">>
    /\ Len(user_statement_matrix) = 3
    /\ user_statement_matrix[1].mapping = <<[statement |-> "s1", position |-> "agree"]>>
    /\ user_statement_matrix[2].mapping = <<[statement |-> "s1", position |-> "disagree"]>>
    /\ user_statement_matrix[3].mapping = <<[statement |-> "s1", position |-> "pass"]>>

\* C10: in that scenario the matrix is [[1],[-1],[0]], the degenerate
\* fallback applies, and analyze completes without raising, returning three
\* user entries whose coordinates and labels are all zero.
C10_SingleStatementFallback ==
    C10_Scenario =>
        /\ numerical_matrix = <<(<<1>>), (<<-1>>), (<<0>>)>>
        /\ NotEnoughData(n_components, 3, 1)
        /\ result.kind = "return"
        /\ Len(result.users) = 3
        /\ AllZero(result.users)

\* analyze took the PCA/K-Means branch: it returned after calling the
\* libraries, or K-Means raised
TookPcaBranch ==
    /\ pc = "analyzed"
    /\ \/ result = Raised("ValueError")
       \/ result.kind = "return" /\ result.lib # <<>>

\* C23: with n_clusters = 3 and n_components = 2, whenever analyze takes the
\* PCA/K-Means branch the matrix has at least 3 rows and at least 3 columns,
\* and K-Means does not raise for want of users.
C23_DefaultsReachPcaWithEnoughData ==
    (/\ n_clusters = DefaultNClusters
     /\ n_components = DefaultNComponents
     /\ TookPcaBranch)
        => /\ Len(numerical_matrix) >= 3
           /\ \A i \in 1..Len(numerical_matrix) : Len(numerical_matrix[i]) >= 3
           /\ Len(numerical_matrix) >= n_clusters
           /\ result # Raised("ValueError")

\* a default analyzer ran PCA and K-Means on a 3 x 3 matrix
C23_Witness ==
    /\ n_clusters = DefaultNClusters
    /\ n_components = DefaultNComponents
    /\ TookPcaBranch
    /\ result.kind = "return"
    /\ Len(numerical_matrix) = 3
    /\ Len(statements) = 3

----------------------------------------------------------------------------
(* Claims about one analysis run (checked under Spec).                      *)

Called(name) == \E i \in 1..Len(calls) : calls[i] = name

\* the error of the `if not statements` check, as the caller sees it
IsNoStatementsError(res) ==
    /\ res.kind = "raise"
    /\ res.exc = "HTTPException"
    /\ LET e == IF via = "endpoint" THEN res.cause ELSE res
       IN  /\ e.exc = "HTTPException"
           /\ e.detail = "Failed to extract statements for analysis."

\* C4: when the responses are non-empty and the extractor returns an empty
\* statement list, the run fails with the no-statements error, the mapper is
\* never called, no matrix is built and no result is returned.
C4_EmptyExtractionFails ==
    (responses # <<>> /\ pc # "run_begin" /\ statements = <<>>) =>
        /\ pc = "run_done"
        /\ IsNoStatementsError(result)
        /\ ~Called("map_response_to_statements")
        /\ user_statement_matrix = <<>>
        /\ numerical_matrix = <<>>

C4_Witness ==
    /\ pc = "run_done"
    /\ Len(responses) = 3
    /\ statements = <<>>
    /\ calls = <<"extract_statements">>
    /\ result.kind = "raise"

\* C5: every successful run over responses r returns exactly Len(r) user
\* entries, entry i holding response r[i], in the fallback branch and in the
\* PCA / K-Means branch alike.
C5_OrderPreserved ==
    (pc = "run_done" /\ result.kind = "return") =>
        /\ Len(result.users) = Len(responses)
        /\ \A i \in 1..Len(responses) : result.users[i].response = responses[i]

C5_Witness ==
    /\ pc = "run_done"
    /\ result.kind = "return"
    /\ result.lib = <<"pca", "kmeans">>
    /\ responses = <<"r2", "r1", "r2">>
    /\ result.users[2].response = "r1"
    /\ result.users[2].cluster = 2

StatementSet == {statements[i] : i \in 1..Len(statements)}

EntriesNaming(mapping, stmt) ==
    {k \in 1..Len(mapping) : mapping[k].statement = stmt}

ExactlyOneEntryPerStatement(mapping) ==
    /\ \A stmt \in StatementSet : Cardinality(EntriesNaming(mapping, stmt)) = 1
    /\ \A k \in 1..Len(mapping) : mapping[k].statement \in StatementSet

EveryStatementCovered(mapping) ==
    \A stmt \in StatementSet : EntriesNaming(mapping, stmt) # {}

\* C6 as claimed: every mapping list handed to the matrix builder holds
\* exactly one entry per statement of the run: none missing, none twice,
\* none outside the set, whatever the LLM returned.
C6_ExactlyOnePerStatement ==
    (client = "ollama" /\ pc = "run_analyze") =>
        \A u \in 1..Len(user_statement_matrix) :
            ExactlyOneEntryPerStatement(user_statement_matrix[u].mapping)

\* C6 as amended: with OllamaClient, every mapping list handed to the matrix
\* builder holds at least one entry for every statement of the run (the ones
\* the LLM left out are appended); what the LLM returned twice or for an
\* unknown statement stays in the list.
C6_EveryStatementCovered ==
    (client = "ollama" /\ pc \in {"run_map", "run_analyze", "run_done"}) =>
        \A u \in 1..Len(user_statement_matrix) :
            EveryStatementCovered(user_statement_matrix[u].mapping)

C6_Witness ==
    /\ client = "ollama"
    /\ pc = "run_analyze"
    /\ Len(statements) = 4
    /\ Len(user_statement_matrix) = 2
    /\ Cardinality(EntriesNaming(user_statement_matrix[1].mapping, statements[1])) = 2
    /\ EntriesNaming(user_statement_matrix[2].mapping, "zz") # {}
    /\ user_statement_matrix[2].mapping[5] = PassEntry(statements[3])

\* C7 as claimed: with zero responses the run makes no call to the LLM and
\* returns an empty result (no users) instead of an error.
C7_EmptyInputReturnsEmpty ==
    (client = "ollama" /\ responses = <<>> /\ pc = "run_done") =>
        /\ ~Called("llm")
        /\ result.kind = "return"
        /\ result.users = <<>>

\* C7 as amended: with zero responses (and OllamaClient) the run makes no
\* call to the LLM, maps nothing, and ends with an error reported to the
\* caller (HTTP 500); it returns no result.
C7_EmptyInputIsAnError ==
    (client = "ollama" /\ responses = <<>>) =>
        /\ pc \in {"run_begin", "run_done"}
        /\ ~Called("llm")
        /\ ~Called("map_response_to_statements")
        /\ pc = "run_done" =>
              /\ result.kind = "raise"
              /\ result.exc = "HTTPException"
              /\ result.status = 500

C7_Witness ==
    /\ client = "ollama"
    /\ via = "direct"
    /\ responses = <<>>
    /\ pc = "run_done"
    /\ calls = <<"extract_statements">>
    /\ IsNoStatementsError(result)

SyntheticIds ==
    <<"participant_1", "participant_2", "participant_3", "participant_4",
      "participant_5", "participant_6">>

C8_UserId(k) ==
    IF user_ids # PyNull /\ k <= Len(user_ids.v)
    THEN user_ids.v[k]
    ELSE SyntheticIds[k]

\* C8: the user_id of entry i is user_ids[i] when a user_ids list is supplied
\* and i < len(user_ids), and the 1-based 'participant_{i+1}' otherwise.
C8_UserIds ==
    /\ \A k \in 1..Len(user_statement_matrix) :
          user_statement_matrix[k].user_id = C8_UserId(k)
    /\ (pc = "run_done" /\ result.kind = "return") =>
          /\ Len(result.users) = Len(responses)
          /\ \A k \in 1..Len(result.users) : result.users[k].user_id = C8_UserId(k)

C8_Witness ==
    /\ pc = "run_done"
    /\ result.kind = "return"
    /\ user_ids = PyList(<<"u1", "u2">>)
    /\ Len(responses) = 3
    /\ result.users[2].user_id = "u2"
    /\ result.users[3].user_id = "participant_3"

\* the mapping lists with every position other than agree / disagree (in any
\* case) replaced by 'pass'
AsPass(usm) ==
    [u \in 1..Len(usm) |->
        [usm[u] EXCEPT !.mapping =
            [k \in 1..Len(usm[u].mapping) |->
                IF usm[u].mapping[k].position \in AgreeSpellings \cup DisagreeSpellings
                THEN usm[u].mapping[k]
                ELSE [usm[u].mapping[k] EXCEPT !.position = "pass"]]]]

\* C12: a mapping entry whose position is anything other than agree /
\* disagree / pass (a missing key, a null) is treated as 'pass' by the matrix
\* builder and never aborts the run: once every response is mapped, the run
\* returns, and its matrix is the one the same lists give with 'pass' there.
C12_MalformedEntryIsPass ==
    (/\ pc = "run_done"
     /\ responses # <<>>
     /\ Len(user_statement_matrix) = Len(responses)) =>
        /\ result.kind = "return"
        /\ numerical_matrix =
               ConvertToNumericalMatrix(AsPass(user_statement_matrix), statements)

\* C14: the no-statements failure reaches the HTTP caller as a client error
\* (a 4xx status), not as a server error.
C14_NoStatementsIsClientError ==
    (pc = "run_done" /\ IsNoStatementsError(result)) =>
        result.status \in 400..499

\* C15: for a non-empty list of responses, the statement list that extraction
\* produces and the run uses holds between 5 and 10 statements, no two with
\* the same text.
C15_StatementCount ==
    (client = "ollama" /\ responses # <<>> /\ pc # "run_begin") =>
        /\ Len(statements) \in 5..10
        /\ NoDuplicates(statements)

\* C25: for a non-empty list of responses the real client's
\* extract_statements returns between 1 and 10 statements whatever the LLM
\* answers (an empty list, too many, text without JSON, a failed request),
\* so the run never takes the no-statements error branch.
C25_RealClientYieldsStatements ==
    (client = "ollama" /\ responses # <<>> /\ pc # "run_begin") =>
        /\ Len(statements) >= 1
        /\ Len(statements) <= 10
        /\ ~IsNoStatementsError(result)

\* the LLM was unreachable for a run on responses: the fallback text and the
\* three defaults are the statements, and the run went on to the mapping
C25_Witness ==
    /\ client = "ollama"
    /\ llm = "down"
    /\ responses # <<>>
    /\ pc = "run_done"
    /\ statements = <<"Unable to extract statements">> \o DefaultStatements
    /\ Called("map_response_to_statements")

\* a result that holds nothing the LLM said: the statements are the fallback
\* text and the defaults of extract_statements, and every position is 'pass'
BuiltFromDefaults ==
    /\ result.kind = "return"
    /\ result.statements = <<"Unable to extract statements">> \o DefaultStatements
    /\ \A u \in 1..Len(user_statement_matrix) :
          user_statement_matrix[u].mapping = AllPass(statements)

\* C13: when every request to the LLM fails or times out, the run ends in a
\* failure reported to the caller, never in a result built from defaults.
C13_UnreachableIsHardFailure ==
    (client = "ollama" /\ llm = "down" /\ responses # <<>> /\ pc = "run_done") =>
        /\ result.kind = "raise"
        /\ ~BuiltFromDefaults

IsPrefix(s, t) == Len(s) <= Len(t) /\ s = SubSeq(t, 1, Len(s))

\* the stages of a whole run over `responses`, given the extracted statements
C18_Stages ==
    <<[op |-> "extract_statements", responses |-> responses]>>
    \o [k \in 1..Len(responses) |->
           [op |-> "map_response_to_statements",
            response_text |-> responses[k], statements |-> statements]]
    \o <<[op |-> "_convert_to_numerical_matrix",
           users |-> Len(responses), statements |-> statements],
          [op |-> "reduce_and_cluster"],
          [op |-> "assemble"]>>

\* C18: the stages of a run begin in the order extract, map, build matrix,
\* reduce/cluster, assemble, each once: one extraction before any mapping
\* call, one mapping call per response in input order, each with the full
\* statement list, and the matrix built after the last mapping call.
C18_StageOrder ==
    /\ IsPrefix(trace, C18_Stages)
    /\ (pc = "run_done" /\ result.kind = "return" /\ responses # <<>>) =>
          trace = C18_Stages

C18_Witness ==
    /\ pc = "run_done"
    /\ result.kind = "return"
    /\ responses = <<"r2", "r1", "r2">>
    /\ Len(statements) = 4
    /\ Len(trace) = 7
    /\ trace[3].response_text = "r1"
    /\ trace[5].op = "_convert_to_numerical_matrix"

----------------------------------------------------------------------------
(* Claims about concurrent runs (checked under SpecConcurrent).             *)

\* what _run_polis_analysis returns or raises when it runs alone on the given
\* arguments and receives the given answers from the LLM
RunAlone(resps, uids, answers) ==
    LET stmts == ExtractStatements(resps, answers[1]).statements
        usm == [k \in 1..Len(resps) |->
                   UserEntry(uids, resps, k,
                             MapResponseToStatements(stmts, answers[k + 1]))]
    IN  {IF outcome.kind = "return" THEN RunReturned(stmts, outcome) ELSE outcome :
            outcome \in AnalyzeOutcomes(usm, stmts, DefaultNClusters,
                                        DefaultNComponents)}

Constructed(r) == frames[r].opinion_analyzer # 0

\* the analyzer of run r was fitted, if at all, on the data of run r
OwnFits(r) ==
    LET self == heap[frames[r].opinion_analyzer]
    IN  /\ self.pca \in {PyNull, Fit(frames[r].numerical_matrix)}
        /\ self.kmeans \in {PyNull, Fit(frames[r].reduced_matrix)}
        /\ frames[r].pc \in {"assemble", "done"} /\ frames[r].lib # <<>> =>
              self.pca # PyNull

\* C17: runs that execute concurrently share no mutable state: each uses the
\* analyzer (reducer and clusterer) created for its own call, fitted on its
\* own matrix only, the shared client is never modified, and each run
\* returns what it returns when it runs alone on the same arguments and
\* answers.
C17_NoInterference ==
    /\ ollama_client = OllamaClientInit
    /\ \A r1, r2 \in Runs :
          (r1 # r2 /\ Constructed(r1) /\ Constructed(r2)) =>
              frames[r1].opinion_analyzer # frames[r2].opinion_analyzer
    /\ \A r \in Runs : Constructed(r) => OwnFits(r)
    /\ \A r \in Runs :
          frames[r].pc = "done" =>
              frames[r].result \in RunAlone(ConcResponses(r), ConcUserIds(r),
                                            frames[r].answers)

\* the second run was constructed first and finished while the first run was
\* between its reduce and its cluster step
C17_Witness ==
    /\ frames[1].pc = "cluster"
    /\ frames[2].pc = "done"
    /\ frames[2].opinion_analyzer = 1
    /\ frames[1].opinion_analyzer = 2
    /\ heap[2].pca = Fit(frames[1].numerical_matrix)
    /\ frames[2].result.kind = "return"


----------------------------------------------------------------------------
(* Claims about the rounds of an event (checked under SpecRounds).          *)

\* the only analysis task of the event ends, and since the organizer's
\* advance-round no request has touched the round it analyses
OnlyTaskEnds ==
    /\ Len(task_frames) = 1
    /\ background_tasks = 0
    /\ task_frames' = <<>>
    /\ task_frames[1].responses >= 1
    /\ db.current_round = task_frames[1].current_round_number
    /\ db.event_rounds[db.current_round] = IN_ANALYSIS

\* C19: when the analysis task that the organizer's advance-round started on
\* a round with at least one response ends, the round-state endpoint reports
\* 'admin_review', whatever the LLM answered and however it failed.
C19_AnalysisEndsInReview ==
    [][OnlyTaskEnds => GetEventRoundState(db').status = ADMIN_REVIEW]_vars

\* C20: whenever round R has status 'admin_review', the synthesis-review
\* endpoint of (event, R) returns a synthesis: one exists with round number
\* R-1, or R when R = 1.
C20_ReviewHasSynthesis ==
    \A R \in RoundNumbers :
        db # PyNull /\ db.event_rounds[R] = ADMIN_REVIEW
            => GetSynthesisForReview(db, R).kind = "return"

\* the step serves a request to the handler op
Serves(op) ==
    /\ Len(served') = Len(served) + 1
    /\ served'[Len(served')].op = op

\* the response that the step gives
Served == served'[Len(served')]

\* the latest response
LastServed == served[Len(served)]

C22_AdvanceRejected ==
    [][Serves("advance_to_next_round") /\ Served.current_user # "organizer" =>
         /\ Served.status_code = 403
         /\ db' = db
         /\ background_tasks' = background_tasks
         /\ task_frames' = task_frames]_vars

\* a rejected advance-round of an event that has responses to analyse
C22_Witness ==
    /\ served # <<>>
    /\ LastServed.op = "advance_to_next_round"
    /\ LastServed.current_user = "participant"
    /\ LastServed.status_code = 403
    /\ db.responses[db.current_round] > 0
    /\ background_tasks = 0

C28_CompletedIsFinal ==
    [][\A n \in RoundNumbers :
          db.event_rounds[n] = COMPLETED => db'.event_rounds[n] = COMPLETED]_vars

\* an approval call has been made that covers the synthesis i
ApprovalCallMade(i) ==
    \E k \in 1..Len(served) :
        /\ served[k].status_code = 200
        /\ \/ served[k].op = "approve_synthesis_review" /\ served[k].arg = i
           \/ served[k].op = "approve_synthesis_and_advance"

TaskEnds(i) ==
    /\ i \in 1..Len(task_frames)
    /\ task_frames' = [k \in 1..(Len(task_frames) - 1) |->
                          IF k < i THEN task_frames[k] ELSE task_frames[k + 1]]

\* while the task of `frame` ran, another analysis of the same round stored
\* its synthesis: the two tasks overlapped
Overlapped(frame) ==
    \E j \in SynthesesOf(db, frame.current_round_number) :
        j > frame.syntheses_before

============================================================================
